---- MODULE Spec2Model ----
(***************************************************************************)
(* Twister puzzle solver (src/twister.py): the geometry primitives, the    *)
(* topology table, the recursive placement search dfs and the driver main. *)
(*                                                                         *)
(* Python lists are sequences; the Python index i is the TLA+ index i+1.   *)
(* A Location and a Direction are triples <<x, y, z>>, a Face is its index *)
(* 0..5, an Orientation is the triple <<neg_x, neg_y, neg_z>> of faces.    *)
(* A raised exception is one of the one-element tuples AssertionError and  *)
(* ValueError, which no Location, Direction or Orientation equals.         *)
(***************************************************************************)
EXTENDS Integers, Sequences, FiniteSets, TLC

VARIABLES
    topology,           \* the topology table the search reads
    LOCATIONS,          \* twister.py:318
    ORIENTATIONS,       \* twister.py:321
    pc,                 \* where control is: idle, main_loop, dfs_entry, dfs_loop, dfs_return, geometry
    stack,              \* the dfs call stack, innermost call last
    ret,                \* the value the innermost dfs call returns with
    y, z,               \* main's loop variables
    starts,             \* the locations main has placed cube 0 at, in order, in this call
    runs,               \* how many times main has been called
    runs_allowed,       \* how many times the caller calls main
    outcomes,           \* one record per finished call of main
    orient0, axis_face, direction_in, \* inputs of the geometry functions
    orient, nrot,       \* right_hand_rotate applied nrot times to orient0
    seed,               \* result of face0_towards(direction_in)
    dirs,               \* face_direction(orient0, f) for the six faces f
    adjoins             \* axis_face.is_adjoining(g) for the six faces g

driver_vars == <<topology, LOCATIONS, ORIENTATIONS, pc, stack, ret,
                 y, z, starts, runs, runs_allowed, outcomes>>
geometry_vars == <<orient0, axis_face, direction_in, orient, nrot, seed, dirs, adjoins>>
vars == <<topology, LOCATIONS, ORIENTATIONS, pc, stack, ret,
          y, z, starts, runs, runs_allowed, outcomes,
          orient0, axis_face, direction_in, orient, nrot, seed, dirs, adjoins>>

----------------------------------------------------------------------------
(* Bounds *)

\* main is called at most this many times in SpecRerun
MaxRuns == 2
\* right_hand_rotate is applied at most this many times in SpecGeometry
MaxRotations == 4

----------------------------------------------------------------------------
(* Python values *)

\* Python's None as an entry of the topology table: an absent face
None == -1
\* the values a dfs call returns with: True, False, and the None of falling off
\* the end of the function body
True == "True"
False == "False"
ReturnsNone == "None"
\* the exception raised by a failed assert
AssertionError == <<"AssertionError">>
\* the exception raised by the invalid-face and invalid-direction branches
ValueError == <<"ValueError">>
\* the exception raised by indexing a list past its end
IndexError == <<"IndexError">>

IsException(v) == v = AssertionError \/ v = ValueError \/ v = IndexError

\* Python truthiness of a dfs return value, as tested by `if dfs(...)`
Truthy(v) == v = True

\* the `in` operator comparing by identity: a newly built Location is found in no list
In_ByIdentity(v, list) == FALSE

\* list.append, list.pop and the `in` operator on lists
Append_(list, v) == Append(list, v)
Pop(list) == SubSeq(list, 1, Len(list) - 1)
In(v, list) == \E i \in 1..Len(list) : list[i] = v

----------------------------------------------------------------------------
(* class Face *)

Faces == 0..5

\* Face.__init__: assert 0 <= index < 6
FaceValid(index) == 0 <= index /\ index < 6

opposite(face) == (face + 3) % 6

is_opposite(face, other) == (face + 3) % 6 = other

\* is_adjoining that compares the indices without reducing them modulo 3
is_adjoining_NoModulo(face, other) == face # other

is_adjoining(face, other) == face % 3 # other % 3

----------------------------------------------------------------------------
(* class Direction, class Location *)

UnitVectors == {<<-1, 0, 0>>, <<1, 0, 0>>, <<0, -1, 0>>, <<0, 1, 0>>,
                <<0, 0, -1>>, <<0, 0, 1>>}

\* Direction.__init__: assert (x, y, z) in the six unit vectors
Direction(x, y_, z_) ==
    IF <<x, y_, z_>> \in UnitVectors THEN <<x, y_, z_>> ELSE AssertionError

reverse(d) == Direction(0 - d[1], 0 - d[2], 0 - d[3])

Location(x, y_, z_) == <<x, y_, z_>>

\* Location.__add__
Location_add(loc, d) == Location(loc[1] + d[1], loc[2] + d[2], loc[3] + d[3])

\* Location.__sub__
Location_sub(loc, other) == Direction(loc[1] - other[1], loc[2] - other[2], loc[3] - other[3])

\* in_bounds that tests the x and y coordinates only
in_bounds_IgnoresZ(loc) == \A i \in 1..2 : 0 <= loc[i] /\ loc[i] < 3

\* in_bounds with the upper limit included
in_bounds_Inclusive(loc) == \A i \in 1..3 : 0 <= loc[i] /\ loc[i] <= 3

in_bounds(loc) == \A i \in 1..3 : 0 <= loc[i] /\ loc[i] < 3

----------------------------------------------------------------------------
(* class Orientation *)

\* Orientation.__init__: the three asserts, then the stored triple
Orientation(neg_x_face, neg_y_face, neg_z_face) ==
    IF /\ is_adjoining(neg_x_face, neg_y_face)
       /\ is_adjoining(neg_x_face, neg_z_face)
       /\ is_adjoining(neg_y_face, neg_z_face)
    THEN <<neg_x_face, neg_y_face, neg_z_face>>
    ELSE AssertionError

neg_x_face(o) == o[1]
neg_y_face(o) == o[2]
neg_z_face(o) == o[3]
x_face(o) == opposite(neg_x_face(o))
y_face(o) == opposite(neg_y_face(o))
z_face(o) == opposite(neg_z_face(o))

\* face_direction with the +y branch returning the -y direction
face_direction_YFaceNegative(o, face) ==
    IF face = neg_x_face(o) THEN Direction(-1, 0, 0)
    ELSE IF face = x_face(o) THEN Direction(1, 0, 0)
    ELSE IF face = neg_y_face(o) THEN Direction(0, -1, 0)
    ELSE IF face = y_face(o) THEN Direction(0, -1, 0)
    ELSE IF face = neg_z_face(o) THEN Direction(0, 0, -1)
    ELSE IF face = z_face(o) THEN Direction(0, 0, 1)
    ELSE ValueError

face_direction(o, face) ==
    IF face = neg_x_face(o) THEN Direction(-1, 0, 0)
    ELSE IF face = x_face(o) THEN Direction(1, 0, 0)
    ELSE IF face = neg_y_face(o) THEN Direction(0, -1, 0)
    ELSE IF face = y_face(o) THEN Direction(0, 1, 0)
    ELSE IF face = neg_z_face(o) THEN Direction(0, 0, -1)
    ELSE IF face = z_face(o) THEN Direction(0, 0, 1)
    ELSE ValueError

\* right_hand_rotate whose x-axis branch puts z_face, not y_face, at -z
right_hand_rotate_XAxisRepeatsZ(o, axis) ==
    IF axis = neg_x_face(o) \/ axis = x_face(o)
    THEN Orientation(neg_x_face(o), neg_z_face(o), z_face(o))
    ELSE IF axis = neg_y_face(o) \/ axis = y_face(o)
    THEN Orientation(z_face(o), neg_y_face(o), neg_x_face(o))
    ELSE IF axis = neg_z_face(o) \/ axis = z_face(o)
    THEN Orientation(neg_y_face(o), x_face(o), neg_z_face(o))
    ELSE ValueError

\* right_hand_rotate whose z-axis branch turns the cube over: z_face, not
\* neg_z_face, ends at -z
right_hand_rotate_ZAxisFlips(o, axis) ==
    IF axis = neg_x_face(o) \/ axis = x_face(o)
    THEN Orientation(neg_x_face(o), neg_z_face(o), y_face(o))
    ELSE IF axis = neg_y_face(o) \/ axis = y_face(o)
    THEN Orientation(z_face(o), neg_y_face(o), neg_x_face(o))
    ELSE IF axis = neg_z_face(o) \/ axis = z_face(o)
    THEN Orientation(neg_y_face(o), x_face(o), z_face(o))
    ELSE ValueError

\* right_hand_rotate whose y-axis branch puts x_face, not neg_x_face, at -z
right_hand_rotate_YAxisMirrors(o, axis) ==
    IF axis = neg_x_face(o) \/ axis = x_face(o)
    THEN Orientation(neg_x_face(o), neg_z_face(o), y_face(o))
    ELSE IF axis = neg_y_face(o) \/ axis = y_face(o)
    THEN Orientation(z_face(o), neg_y_face(o), x_face(o))
    ELSE IF axis = neg_z_face(o) \/ axis = z_face(o)
    THEN Orientation(neg_y_face(o), x_face(o), neg_z_face(o))
    ELSE ValueError

right_hand_rotate(o, axis) ==
    IF axis = neg_x_face(o) \/ axis = x_face(o)
    THEN Orientation(neg_x_face(o), neg_z_face(o), y_face(o))
    ELSE IF axis = neg_y_face(o) \/ axis = y_face(o)
    THEN Orientation(z_face(o), neg_y_face(o), neg_x_face(o))
    ELSE IF axis = neg_z_face(o) \/ axis = z_face(o)
    THEN Orientation(neg_y_face(o), x_face(o), neg_z_face(o))
    ELSE ValueError

\* face0_towards whose +y entry has face 0 stored as the -y face
face0_towards_PlusYWrong(direction) ==
    IF direction = Direction(-1, 0, 0) THEN Orientation(0, 1, 2)
    ELSE IF direction = Direction(1, 0, 0) THEN Orientation(3, 5, 4)
    ELSE IF direction = Direction(0, -1, 0) THEN Orientation(2, 0, 1)
    ELSE IF direction = Direction(0, 1, 0) THEN Orientation(4, 0, 5)
    ELSE IF direction = Direction(0, 0, -1) THEN Orientation(1, 2, 0)
    ELSE IF direction = Direction(0, 0, 1) THEN Orientation(5, 4, 3)
    ELSE ValueError

face0_towards(direction) ==
    IF direction = Direction(-1, 0, 0) THEN Orientation(0, 1, 2)
    ELSE IF direction = Direction(1, 0, 0) THEN Orientation(3, 5, 4)
    ELSE IF direction = Direction(0, -1, 0) THEN Orientation(2, 0, 1)
    ELSE IF direction = Direction(0, 1, 0) THEN Orientation(4, 3, 5)
    ELSE IF direction = Direction(0, 0, -1) THEN Orientation(1, 2, 0)
    ELSE IF direction = Direction(0, 0, 1) THEN Orientation(5, 4, 3)
    ELSE ValueError

\* the orientations Orientation.__init__ accepts
WellFormedOrientations ==
    {o \in Faces \X Faces \X Faces : Orientation(o[1], o[2], o[3]) # AssertionError}

----------------------------------------------------------------------------
(* The topology table *)

\* the table with face 3, not face 1, as the face_to_next of cube 2: cubes
\* 0 to 3 would lie in a line of four
FACES_TO_NEIGHBORS_Cube2Straight == <<
    <<None, 3>>, <<0, 3>>, <<0, 3>>, <<0, 3>>, <<0, 1>>, <<0, 3>>, <<0, 1>>,
    <<0, 3>>, <<0, 1>>, <<0, 1>>, <<0, 1>>, <<0, 1>>, <<0, 3>>, <<0, 1>>,
    <<0, 3>>, <<0, 1>>, <<0, 1>>, <<0, 1>>, <<0, 3>>, <<0, 1>>, <<0, 1>>,
    <<0, 3>>, <<0, 1>>, <<0, 1>>, <<0, 1>>, <<0, 3>>, <<0, None>> >>

\* entry i+1 is <<face_to_prev, face_to_next>> of cube i
FACES_TO_NEIGHBORS == <<
    <<None, 3>>, <<0, 3>>, <<0, 1>>, <<0, 3>>, <<0, 1>>, <<0, 3>>, <<0, 1>>,
    <<0, 3>>, <<0, 1>>, <<0, 1>>, <<0, 1>>, <<0, 1>>, <<0, 3>>, <<0, 1>>,
    <<0, 3>>, <<0, 1>>, <<0, 1>>, <<0, 1>>, <<0, 3>>, <<0, 1>>, <<0, 1>>,
    <<0, 3>>, <<0, 1>>, <<0, 1>>, <<0, 1>>, <<0, 3>>, <<0, None>> >>

\* the table with the joint of cube i to cube i+1 moved to the face opposite
\* to face_to_prev, so that cubes i-1, i, i+1 lie in a line
Straightened(i) == [FACES_TO_NEIGHBORS EXCEPT ![i + 1] = <<0, 3>>]

\* the cubes whose joint SpecTopology straightens
StraightenedCubes == {2, 4, 6, 8}

\* the tables SpecTopology runs the driver on: the source's table, and tables
\* that have no solution, on which the search exhausts every starting placement
Topologies == {FACES_TO_NEIGHBORS} \cup {Straightened(i) : i \in StraightenedCubes}

----------------------------------------------------------------------------
(* dfs: the computations of one call *)

\* Python's list[i]
At(list, i) == IF 0 <= i /\ i < Len(list) THEN list[i + 1] ELSE IndexError

\* right_hand_rotate of an orientation whose computation may have raised
\* (o is bound to its value v once, so that a chain of rotations is evaluated
\* in linear time)
Rotated(o, axis) ==
    CHOOSE r \in {IF IsException(v) THEN v ELSE right_hand_rotate(v, axis) : v \in {o}} : TRUE

\* dfs_direction that takes the current cube's face_to_prev for the previous
\* cube's face_to_next
dfs_direction_UsesFaceToPrev(cube_index) ==
    LET prev_orientation == At(ORIENTATIONS, cube_index - 1)
        face_to_prev == topology[cube_index + 1][1]
    IN  IF IsException(prev_orientation) THEN prev_orientation
        ELSE face_direction(prev_orientation, face_to_prev)

\* dfs, lines 441-443: the location of cube cube_index, from the previous cube
dfs_direction(cube_index) ==
    LET prev_orientation == At(ORIENTATIONS, cube_index - 1)
        prev_face_to_curr == topology[cube_index][2]
    IN  IF IsException(prev_orientation) THEN prev_orientation
        ELSE face_direction(prev_orientation, prev_face_to_curr)

dfs_curr_location(cube_index) ==
    LET prev_location == At(LOCATIONS, cube_index - 1)
        direction == dfs_direction(cube_index)
    IN  IF IsException(prev_location) THEN prev_location
        ELSE IF IsException(direction) THEN direction
        ELSE Location_add(prev_location, direction)

\* dfs_orientations that seeds with the direction itself, not its reverse
dfs_orientations_SeedsForward(direction, face_to_prev, face_to_next) ==
    LET o0 == IF IsException(direction) THEN direction
              ELSE face0_towards(direction)
        o1 == Rotated(o0, face_to_prev)
        o2 == Rotated(o1, face_to_prev)
        o3 == Rotated(o2, face_to_prev)
    IN  IF face_to_next # None /\ ~is_opposite(face_to_prev, face_to_next)
        THEN <<o0, o1, o2, o3>>
        ELSE <<o0>>

\* dfs_orientations without the is_opposite test of line 458
dfs_orientations_IgnoresOpposite(direction, face_to_prev, face_to_next) ==
    LET reverse_direction == reverse(direction)
        o0 == IF IsException(reverse_direction) THEN reverse_direction
              ELSE face0_towards(reverse_direction)
        o1 == Rotated(o0, face_to_prev)
        o2 == Rotated(o1, face_to_prev)
        o3 == Rotated(o2, face_to_prev)
    IN  IF face_to_next # None
        THEN <<o0, o1, o2, o3>>
        ELSE <<o0>>

\* dfs, lines 452-462: the candidate orientations of the current cube
dfs_orientations(direction, face_to_prev, face_to_next) ==
    LET reverse_direction == reverse(direction)
        o0 == IF IsException(reverse_direction) THEN reverse_direction
              ELSE face0_towards(reverse_direction)
        o1 == Rotated(o0, face_to_prev)
        o2 == Rotated(o1, face_to_prev)
        o3 == Rotated(o2, face_to_prev)
    IN  IF face_to_next # None /\ ~is_opposite(face_to_prev, face_to_next)
        THEN <<o0, o1, o2, o3>>
        ELSE <<o0>>

\* the first exception in a list of computed values, or None
FirstException(list) ==
    IF \E i \in 1..Len(list) : IsException(list[i])
    THEN list[CHOOSE i \in 1..Len(list) :
                 /\ IsException(list[i])
                 /\ \A j \in 1..(i - 1) : ~IsException(list[j])]
    ELSE <<>>

\* a new activation record of dfs; entry_LOCATIONS and entry_ORIENTATIONS
\* record the two lists as they are when the call is entered
Frame(cube_index) ==
    [cube_index |-> cube_index, orientations |-> <<>>, next |-> 0,
     entry_LOCATIONS |-> LOCATIONS', entry_ORIENTATIONS |-> ORIENTATIONS']

Top == stack[Len(stack)]

----------------------------------------------------------------------------
(* The driver and the search *)

\* main returns, or an exception leaves it
Finish(result) ==
    /\ pc' = "idle"
    /\ stack' = <<>>
    /\ outcomes' = Append(outcomes, [result |-> result,
                                     LOCATIONS |-> LOCATIONS',
                                     ORIENTATIONS |-> ORIENTATIONS'])

\* an exception propagates out of dfs and main
Raise(exception) ==
    /\ UNCHANGED <<LOCATIONS, ORIENTATIONS, ret, y, z, starts>>
    /\ Finish(exception[1])

\* the caller calls main(): the two for loops start
MainCall ==
    /\ pc = "idle"
    /\ runs < runs_allowed
    /\ runs' = runs + 1
    /\ y' = 0 /\ z' = 0
    /\ starts' = <<>>
    /\ pc' = "main_loop"
    /\ UNCHANGED <<topology, LOCATIONS, ORIENTATIONS, stack, ret, runs_allowed, outcomes>>
    /\ UNCHANGED geometry_vars

\* main, lines 482-496: one iteration of the loops up to the call dfs(1),
\* or the end of the loops
MainLoop ==
    /\ pc = "main_loop"
    /\ IF y >= 2
       THEN /\ UNCHANGED <<LOCATIONS, ORIENTATIONS, ret, y, z, starts>>
            /\ Finish("no solution")
       ELSE IF Len(LOCATIONS) # 0 \/ Len(ORIENTATIONS) # 0
       THEN Raise(AssertionError)
       ELSE IF IsException(Orientation(0, 1, 2))
       THEN /\ LOCATIONS' = Append_(LOCATIONS, Location(0, y, z))
            /\ starts' = Append(starts, Location(0, y, z))
            /\ UNCHANGED <<ORIENTATIONS, ret, y, z>>
            /\ Finish(AssertionError[1])
       ELSE /\ LOCATIONS' = Append_(LOCATIONS, Location(0, y, z))
            /\ ORIENTATIONS' = Append_(ORIENTATIONS, Orientation(0, 1, 2))
            /\ starts' = Append(starts, Location(0, y, z))
            /\ stack' = <<Frame(1)>>
            /\ pc' = "dfs_entry"
            /\ UNCHANGED <<ret, y, z, outcomes>>
    /\ UNCHANGED <<topology, runs, runs_allowed>>
    /\ UNCHANGED geometry_vars

\* dfs, lines 355-464: from the entry of the call to its first return, or to
\* the start of its loop over the candidate orientations
DfsEntry ==
    /\ pc = "dfs_entry"
    /\ LET cube_index == Top.cube_index
       IN  IF ~(0 < cube_index /\ cube_index <= 27)
           THEN Raise(AssertionError)
           ELSE IF cube_index = 27
           THEN /\ ret' = True
                /\ pc' = "dfs_return"
                /\ UNCHANGED <<LOCATIONS, ORIENTATIONS, stack, y, z, starts, outcomes>>
           ELSE
           LET face_to_prev == topology[cube_index + 1][1]
               face_to_next == topology[cube_index + 1][2]
               prev_face_to_curr == topology[cube_index][2]
           IN  \E direction \in {dfs_direction(cube_index)} :
               \E curr_location \in {dfs_curr_location(cube_index)} :
               \E orientations \in {dfs_orientations(direction, face_to_prev, face_to_next)} :
               IF face_to_prev # 0
               THEN Raise(AssertionError)
               ELSE IF cube_index - 1 >= Len(LOCATIONS) \/ cube_index - 1 >= Len(ORIENTATIONS)
               THEN Raise(IndexError)
               ELSE IF prev_face_to_curr = None
               THEN Raise(AssertionError)
               ELSE IF IsException(curr_location)
               THEN Raise(curr_location)
               ELSE IF ~in_bounds(curr_location)
               THEN /\ ret' = False
                    /\ pc' = "dfs_return"
                    /\ UNCHANGED <<LOCATIONS, ORIENTATIONS, stack, y, z, starts, outcomes>>
               ELSE IF In(curr_location, LOCATIONS)
               THEN /\ ret' = False
                    /\ pc' = "dfs_return"
                    /\ UNCHANGED <<LOCATIONS, ORIENTATIONS, stack, y, z, starts, outcomes>>
               ELSE IF FirstException(orientations) # <<>>
               THEN Raise(FirstException(orientations))
               ELSE /\ LOCATIONS' = Append_(LOCATIONS, curr_location)
                    /\ stack' = [stack EXCEPT ![Len(stack)].orientations = orientations,
                                              ![Len(stack)].next = 0]
                    /\ pc' = "dfs_loop"
                    /\ UNCHANGED <<ORIENTATIONS, ret, y, z, starts, outcomes>>
    /\ UNCHANGED <<topology, runs, runs_allowed>>
    /\ UNCHANGED geometry_vars

\* DfsLoop without the LOCATIONS.pop() of line 473
DfsLoop_KeepsLocation ==
    /\ pc = "dfs_loop"
    /\ IF Top.next < Len(Top.orientations)
       THEN /\ ORIENTATIONS' = Append_(ORIENTATIONS, Top.orientations[Top.next + 1])
            /\ LOCATIONS' = LOCATIONS
            /\ stack' = Append(stack, Frame(Top.cube_index + 1))
            /\ pc' = "dfs_entry"
            /\ UNCHANGED ret
       ELSE /\ LOCATIONS' = LOCATIONS
            /\ ret' = ReturnsNone
            /\ pc' = "dfs_return"
            /\ UNCHANGED <<ORIENTATIONS, stack>>
    /\ UNCHANGED <<topology, y, z, starts, runs, runs_allowed, outcomes>>
    /\ UNCHANGED geometry_vars

\* dfs, lines 465-468 and 473: the loop takes its next candidate orientation,
\* pushes it and calls dfs(cube_index + 1); or the loop is over, the location
\* is popped and the call falls off the end of the function
DfsLoop ==
    /\ pc = "dfs_loop"
    /\ IF Top.next < Len(Top.orientations)
       THEN /\ ORIENTATIONS' = Append_(ORIENTATIONS, Top.orientations[Top.next + 1])
            /\ LOCATIONS' = LOCATIONS
            /\ stack' = Append(stack, Frame(Top.cube_index + 1))
            /\ pc' = "dfs_entry"
            /\ UNCHANGED ret
       ELSE /\ LOCATIONS' = Pop(LOCATIONS)
            /\ ret' = ReturnsNone
            /\ pc' = "dfs_return"
            /\ UNCHANGED <<ORIENTATIONS, stack>>
    /\ UNCHANGED <<topology, y, z, starts, runs, runs_allowed, outcomes>>
    /\ UNCHANGED geometry_vars

\* DfsAfterDfs without the ORIENTATIONS.pop() of line 471
DfsAfterDfs_KeepsOrientation ==
    /\ pc = "dfs_return"
    /\ Len(stack) > 1
    /\ LET caller == Len(stack) - 1
       IN  IF Truthy(ret)
           THEN /\ stack' = Pop(stack)
                /\ ret' = True
                /\ pc' = "dfs_return"
                /\ UNCHANGED ORIENTATIONS
           ELSE /\ ORIENTATIONS' = ORIENTATIONS
                /\ stack' = [Pop(stack) EXCEPT ![caller].next = @ + 1]
                /\ pc' = "dfs_loop"
                /\ UNCHANGED ret
    /\ UNCHANGED <<topology, LOCATIONS, y, z, starts, runs, runs_allowed, outcomes>>
    /\ UNCHANGED geometry_vars

\* DfsAfterDfs whose loop skips the candidate orientation after a failed one
DfsAfterDfs_SkipsCandidate ==
    /\ pc = "dfs_return"
    /\ Len(stack) > 1
    /\ LET caller == Len(stack) - 1
       IN  IF Truthy(ret)
           THEN /\ stack' = Pop(stack)
                /\ ret' = True
                /\ pc' = "dfs_return"
                /\ UNCHANGED ORIENTATIONS
           ELSE /\ ORIENTATIONS' = Pop(ORIENTATIONS)
                /\ stack' = [Pop(stack) EXCEPT ![caller].next = @ + 2]
                /\ pc' = "dfs_loop"
                /\ UNCHANGED ret
    /\ UNCHANGED <<topology, LOCATIONS, y, z, starts, runs, runs_allowed, outcomes>>
    /\ UNCHANGED geometry_vars

\* DfsAfterDfs that backtracks whatever the recursive call returned
DfsAfterDfs_IgnoresSuccess ==
    /\ pc = "dfs_return"
    /\ Len(stack) > 1
    /\ LET caller == Len(stack) - 1
       IN  IF Truthy(ret) /\ FALSE
           THEN /\ stack' = Pop(stack)
                /\ ret' = True
                /\ pc' = "dfs_return"
                /\ UNCHANGED ORIENTATIONS
           ELSE /\ ORIENTATIONS' = Pop(ORIENTATIONS)
                /\ stack' = [Pop(stack) EXCEPT ![caller].next = @ + 1]
                /\ pc' = "dfs_loop"
                /\ UNCHANGED ret
    /\ UNCHANGED <<topology, LOCATIONS, y, z, starts, runs, runs_allowed, outcomes>>
    /\ UNCHANGED geometry_vars

\* DfsAfterDfs whose loop takes the same candidate orientation again
DfsAfterDfs_RetriesCandidate ==
    /\ pc = "dfs_return"
    /\ Len(stack) > 1
    /\ LET caller == Len(stack) - 1
       IN  IF Truthy(ret)
           THEN /\ stack' = Pop(stack)
                /\ ret' = True
                /\ pc' = "dfs_return"
                /\ UNCHANGED ORIENTATIONS
           ELSE /\ ORIENTATIONS' = Pop(ORIENTATIONS)
                /\ stack' = [Pop(stack) EXCEPT ![caller].next = @]
                /\ pc' = "dfs_loop"
                /\ UNCHANGED ret
    /\ UNCHANGED <<topology, LOCATIONS, y, z, starts, runs, runs_allowed, outcomes>>
    /\ UNCHANGED geometry_vars

\* dfs, lines 468-471: the recursive call has returned to the dfs call that
\* made it
DfsAfterDfs ==
    /\ pc = "dfs_return"
    /\ Len(stack) > 1
    /\ LET caller == Len(stack) - 1
       IN  IF Truthy(ret)
           THEN /\ stack' = Pop(stack)
                /\ ret' = True
                /\ pc' = "dfs_return"
                /\ UNCHANGED ORIENTATIONS
           ELSE /\ ORIENTATIONS' = Pop(ORIENTATIONS)
                /\ stack' = [Pop(stack) EXCEPT ![caller].next = @ + 1]
                /\ pc' = "dfs_loop"
                /\ UNCHANGED ret
    /\ UNCHANGED <<topology, LOCATIONS, y, z, starts, runs, runs_allowed, outcomes>>
    /\ UNCHANGED geometry_vars

\* MainAfterDfs without the ORIENTATIONS.pop() of line 500
MainAfterDfs_KeepsOrientation ==
    /\ pc = "dfs_return"
    /\ Len(stack) = 1
    /\ IF Truthy(ret)
       THEN /\ UNCHANGED <<LOCATIONS, ORIENTATIONS, y, z>>
            /\ Finish("solution")
       ELSE /\ LOCATIONS' = Pop(LOCATIONS)
            /\ ORIENTATIONS' = ORIENTATIONS
            /\ stack' = <<>>
            /\ IF z + 1 < 2
               THEN y' = y /\ z' = z + 1
               ELSE y' = y + 1 /\ z' = 0
            /\ pc' = "main_loop"
            /\ UNCHANGED outcomes
    /\ UNCHANGED <<topology, ret, starts, runs, runs_allowed>>
    /\ UNCHANGED geometry_vars

\* main, lines 496-500: dfs(1) has returned to main
MainAfterDfs ==
    /\ pc = "dfs_return"
    /\ Len(stack) = 1
    /\ IF Truthy(ret)
       THEN /\ UNCHANGED <<LOCATIONS, ORIENTATIONS, y, z>>
            /\ Finish("solution")
       ELSE /\ LOCATIONS' = Pop(LOCATIONS)
            /\ ORIENTATIONS' = Pop(ORIENTATIONS)
            /\ stack' = <<>>
            /\ IF z + 1 < 2
               THEN y' = y /\ z' = z + 1
               ELSE y' = y + 1 /\ z' = 0
            /\ pc' = "main_loop"
            /\ UNCHANGED outcomes
    /\ UNCHANGED <<topology, ret, starts, runs, runs_allowed>>
    /\ UNCHANGED geometry_vars

Next == MainCall \/ MainLoop \/ DfsEntry \/ DfsLoop \/ DfsAfterDfs \/ MainAfterDfs

\* the values of the geometry variables while the driver runs
NoGeometry ==
    /\ orient0 = <<>> /\ axis_face = None /\ direction_in = <<>>
    /\ orient = <<>> /\ nrot = 0 /\ seed = <<>> /\ dirs = <<>> /\ adjoins = <<>>

\* the state after the module is loaded
InitDriver ==
    /\ LOCATIONS = <<>>
    /\ ORIENTATIONS = <<>>
    /\ pc = "idle"
    /\ stack = <<>>
    /\ ret = ReturnsNone
    /\ y = 0 /\ z = 0
    /\ starts = <<>>
    /\ runs = 0
    /\ outcomes = <<>>
    /\ NoGeometry

\* the program: the source's table, main called once
Init ==
    /\ InitDriver
    /\ topology = FACES_TO_NEIGHBORS
    /\ runs_allowed = 1

Spec == Init /\ [][Next]_vars

\* the interpreter runs the one thread of the program until main has returned
FairSpec == Spec /\ WF_vars(Next)

\* the search on each table of Topologies, main called once
InitTopology ==
    /\ InitDriver
    /\ topology \in Topologies
    /\ runs_allowed = 1

SpecTopology == InitTopology /\ [][Next]_vars

\* the interpreter runs the one thread of the program until main has returned
FairSpecTopology == SpecTopology /\ WF_vars(Next)

\* a caller that calls main again after it has returned
InitRerun ==
    /\ InitDriver
    /\ topology \in Topologies
    /\ runs_allowed = MaxRuns

SpecRerun == InitRerun /\ [][Next]_vars

----------------------------------------------------------------------------
(* The geometry functions on their own *)

\* orient := orient.right_hand_rotate(axis_face)
Rotate ==
    /\ pc = "geometry"
    /\ nrot < MaxRotations
    /\ ~IsException(orient)
    /\ orient' = right_hand_rotate(orient, axis_face)
    /\ nrot' = nrot + 1
    /\ UNCHANGED <<orient0, axis_face, direction_in, seed, dirs, adjoins>>
    /\ UNCHANGED driver_vars

\* seed := face0_towards(direction_in)
Face0Towards ==
    /\ pc = "geometry"
    /\ seed = <<>>
    /\ seed' = face0_towards(direction_in)
    /\ UNCHANGED <<orient0, axis_face, direction_in, orient, nrot, dirs, adjoins>>
    /\ UNCHANGED driver_vars

\* dirs[f + 1] := orient0.face_direction(Face(f)) for the six faces f
FaceDirections ==
    /\ pc = "geometry"
    /\ dirs = <<>>
    /\ dirs' = [i \in 1..6 |-> face_direction(orient0, i - 1)]
    /\ UNCHANGED <<orient0, axis_face, direction_in, orient, nrot, seed, adjoins>>
    /\ UNCHANGED driver_vars

\* adjoins[g + 1] := Face(axis_face).is_adjoining(Face(g)) for the six faces g
Adjoining ==
    /\ pc = "geometry"
    /\ adjoins = <<>>
    /\ adjoins' = [i \in 1..6 |-> is_adjoining(axis_face, i - 1)]
    /\ UNCHANGED <<orient0, axis_face, direction_in, orient, nrot, seed, dirs>>
    /\ UNCHANGED driver_vars

NextGeometry == Rotate \/ Face0Towards \/ FaceDirections \/ Adjoining

\* every orientation, face and direction the constructors accept
InitGeometry ==
    /\ topology = FACES_TO_NEIGHBORS
    /\ LOCATIONS = <<>>
    /\ ORIENTATIONS = <<>>
    /\ pc = "geometry"
    /\ stack = <<>>
    /\ ret = ReturnsNone
    /\ y = 0 /\ z = 0
    /\ starts = <<>>
    /\ runs = 0
    /\ runs_allowed = 0
    /\ outcomes = <<>>
    /\ orient0 \in WellFormedOrientations
    /\ axis_face \in {f \in Faces : FaceValid(f)}
    /\ direction_in \in {d \in UnitVectors : Direction(d[1], d[2], d[3]) # AssertionError}
    /\ orient = orient0
    /\ nrot = 0
    /\ seed = <<>>
    /\ dirs = <<>>
    /\ adjoins = <<>>

SpecGeometry == InitGeometry /\ [][NextGeometry]_vars

----------------------------------------------------------------------------
(* Properties of the driver run *)

\* main has returned or has been left by an exception
Finished == pc = "idle" /\ outcomes # <<>>

LastOutcome == outcomes[Len(outcomes)]

\* a dfs call is returning True, or main has returned after dfs(1) returned True
SuccessSignalled ==
    \/ pc = "dfs_return" /\ Truthy(ret)
    \/ Finished /\ LastOutcome.result = "solution"

InGrid(loc) == \A i \in 1..3 : loc[i] \in {0, 1, 2}

PairwiseDistinct(list) ==
    \A i, j \in 1..Len(list) : i # j => list[i] # list[j]

\* C1: whenever the search signals success, LOCATIONS and ORIENTATIONS hold
\* 27 entries each, the locations are pairwise distinct and inside the grid,
\* and for every cube i in 0..25 the direction of its face_to_next is the step
\* from its location to the location of cube i+1.
C1_SuccessIsSolution ==
    SuccessSignalled =>
        /\ Len(LOCATIONS) = 27
        /\ Len(ORIENTATIONS) = 27
        /\ PairwiseDistinct(LOCATIONS)
        /\ \A i \in 1..27 : InGrid(LOCATIONS[i])
        /\ \A i \in 0..25 :
              /\ LOCATIONS[i + 2] # LOCATIONS[i + 1]
              /\ \A c \in 1..3 :
                    face_direction(ORIENTATIONS[i + 1], topology[i + 1][2])[c]
                        = LOCATIONS[i + 2][c] - LOCATIONS[i + 1][c]

C1_Witness ==
    /\ Finished
    /\ LastOutcome.result = "solution"
    /\ topology = FACES_TO_NEIGHBORS
    /\ Len(LastOutcome.LOCATIONS) = 27

\* C3: a call dfs(k), k in 1..26, that returns without success leaves
\* LOCATIONS and ORIENTATIONS equal to what they were when it was entered;
\* a call that returns success leaves both extended to all 27 cubes.
C3_FailedCallRestoresStacks ==
    (pc = "dfs_return" /\ Top.cube_index \in 1..26) =>
        IF Truthy(ret)
        THEN /\ Len(LOCATIONS) = 27 /\ Len(LOCATIONS) > Len(Top.entry_LOCATIONS)
             /\ Len(ORIENTATIONS) = 27 /\ Len(ORIENTATIONS) > Len(Top.entry_ORIENTATIONS)
        ELSE /\ LOCATIONS = Top.entry_LOCATIONS
             /\ ORIENTATIONS = Top.entry_ORIENTATIONS

\* a call that tried four orientations, each of which failed
C3_Witness ==
    /\ pc = "dfs_return"
    /\ ret = ReturnsNone
    /\ Top.cube_index \in 2..25
    /\ Len(Top.orientations) = 4
    /\ Top.next = 4
    /\ LOCATIONS = Top.entry_LOCATIONS
    /\ Len(LOCATIONS) = Top.cube_index

\* C4: in every reachable state every location in LOCATIONS has its three
\* coordinates in {0,1,2}, and the locations in LOCATIONS are pairwise distinct.
C4_LocationsInGridAndDistinct ==
    /\ \A i \in 1..Len(LOCATIONS) : InGrid(LOCATIONS[i])
    /\ PairwiseDistinct(LOCATIONS)

C4_Witness ==
    /\ pc = "dfs_loop"
    /\ Len(LOCATIONS) = 20
    /\ ~Finished

\* C5: once a dfs call returns success, every step propagates the success up
\* to main: nothing is pushed on or popped from LOCATIONS or ORIENTATIONS, no
\* loop over candidate orientations advances, no call is made, and main tries
\* no further starting placement.
C5_SuccessPropagates ==
    [][SuccessSignalled =>
          /\ SuccessSignalled'
          /\ LOCATIONS' = LOCATIONS
          /\ ORIENTATIONS' = ORIENTATIONS
          /\ Len(stack') < Len(stack)
          /\ \A i \in 1..Len(stack') : stack'[i] = stack[i]
          /\ y' = y /\ z' = z /\ starts' = starts]_vars

\* success has travelled half way up the recursion
C5_Witness ==
    /\ pc = "dfs_return"
    /\ Truthy(ret)
    /\ Top.cube_index = 13
    /\ Len(LOCATIONS) = 27

\* the order in which main places cube 0
StartingPlacements == <<Location(0, 0, 0), Location(0, 0, 1), Location(0, 1, 0), Location(0, 1, 1)>>

\* C6: main places cube 0 at (0,0,0), (0,0,1), (0,1,0), (0,1,1) in this order,
\* each with the orientation (neg_x=0, neg_y=1, neg_z=2); the two length
\* assertions of main never fail, and dfs(1) is entered with exactly cube 0 on
\* LOCATIONS and on ORIENTATIONS.
C6_StartingPlacements ==
    /\ Len(starts) <= 4
    /\ \A i \in 1..Len(starts) : starts[i] = StartingPlacements[i]
    /\ \A i \in 1..Len(outcomes) : outcomes[i].result # AssertionError[1]
    /\ (pc = "dfs_entry" /\ Len(stack) = 1) =>
          /\ LOCATIONS = <<starts[Len(starts)]>>
          /\ ORIENTATIONS = << <<0, 1, 2>> >>

\* the fourth attempt is about to enter dfs(1)
C6_Witness ==
    /\ pc = "dfs_entry"
    /\ Len(stack) = 1
    /\ starts = StartingPlacements
    /\ LOCATIONS = << <<0, 1, 1>> >>

\* C2: every run of the driver reaches the return of main, with a solution
\* or with all four starting placements exhausted, and the recursion never
\* goes deeper than cube_index 27.
C2_Terminates ==
    /\ <>(Finished /\ LastOutcome.result \in {"solution", "no solution"})
    /\ [](/\ Len(stack) <= 27
          /\ \A i \in 1..Len(stack) : stack[i].cube_index = i)

\* all four starting placements were tried and failed
C2_Witness ==
    /\ Finished
    /\ LastOutcome.result = "no solution"
    /\ Len(starts) = 4

\* C7: when main is called again after it has returned, the second call ends
\* with the same outcome as the first: the same solution on the two lists, or
\* no solution again.
C7_RerunSameOutcome ==
    \A i \in 2..Len(outcomes) : outcomes[i] = outcomes[i - 1]

\* the location one step from cube k-1 in the direction its face_to_next points
StepFromPrevious(k) ==
    LET d == face_direction(ORIENTATIONS[k], topology[k][2])
    IN  <<LOCATIONS[k][1] + d[1], LOCATIONS[k][2] + d[2], LOCATIONS[k][3] + d[3]>>

\* the call returns False at once: nothing pushed, no call made
RejectedStep ==
    /\ pc' = "dfs_return"
    /\ ret' = False
    /\ LOCATIONS' = LOCATIONS
    /\ ORIENTATIONS' = ORIENTATIONS
    /\ stack' = stack

\* C11: the step of dfs(k), k in 1..26, rejects the location one step from
\* the previous cube (returns False with nothing pushed and no recursive call)
\* exactly when a coordinate of it is outside {0,1,2} or it is already in
\* LOCATIONS; in every other case the step pushes it onto LOCATIONS.
C11_PruneExactly ==
    [][(pc = "dfs_entry" /\ Top.cube_index \in 1..26) =>
          IF \/ ~InGrid(StepFromPrevious(Top.cube_index))
             \/ \E i \in 1..Len(LOCATIONS) : LOCATIONS[i] = StepFromPrevious(Top.cube_index)
          THEN RejectedStep
          ELSE /\ ~RejectedStep
               /\ LOCATIONS' = Append(LOCATIONS, StepFromPrevious(Top.cube_index))
               /\ ORIENTATIONS' = ORIENTATIONS
               /\ pc' = "dfs_loop"]_vars

\* a call has just rejected a location that is inside the grid but occupied
C11_Witness ==
    /\ pc = "dfs_return"
    /\ ret = False
    /\ Top.cube_index \in 1..26
    /\ InGrid(StepFromPrevious(Top.cube_index))
    /\ \E i \in 1..Len(LOCATIONS) : LOCATIONS[i] = StepFromPrevious(Top.cube_index)

\* C12: every dfs call that ends without success returns the boolean False
\* to its caller, and none is left by an exception.
C12_FailureReturnsFalse ==
    /\ (pc = "dfs_return" /\ ~Truthy(ret)) => ret = False
    /\ \A i \in 1..Len(outcomes) : outcomes[i].result \in {"solution", "no solution"}

----------------------------------------------------------------------------
(* Properties of the geometry functions *)

WellFormed(o) ==
    /\ Len(o) = 3
    /\ is_adjoining(o[1], o[2])
    /\ is_adjoining(o[1], o[3])
    /\ is_adjoining(o[2], o[3])

\* C8: four successive applications of right_hand_rotate(a) to a well-formed
\* orientation give the orientation back; one, two and three applications
\* give an orientation different from it.
C8_RotationHasOrderFour ==
    pc = "geometry" =>
        /\ nrot = 4 => orient = orient0
        /\ nrot \in 1..3 => (WellFormed(orient) /\ orient # orient0)

C8_Witness ==
    /\ pc = "geometry"
    /\ nrot = 4
    /\ orient = orient0
    /\ axis_face = y_face(orient0)

\* C9: for each of the six unit directions d, face0_towards(d) is a
\* well-formed orientation whose face 0 points in direction d.
C9_Face0Towards ==
    (pc = "geometry" /\ seed # <<>>) =>
        /\ WellFormed(seed)
        /\ face_direction(seed, 0) = direction_in

C9_Witness ==
    /\ pc = "geometry"
    /\ direction_in = <<0, 1, 0>>
    /\ seed # <<>>
    /\ y_face(seed) = 0

\* C10: for a well-formed orientation, face_direction maps the six faces one
\* to one onto the six unit directions and never raises: the stored faces map
\* to -x, -y, -z, their opposites to +x, +y, +z.
C10_FaceDirectionBijection ==
    (pc = "geometry" /\ dirs # <<>>) =>
        /\ \A i \in 1..6 : dirs[i] \in UnitVectors
        /\ \A i, j \in 1..6 : i # j => dirs[i] # dirs[j]
        /\ \A d \in UnitVectors : \E i \in 1..6 : dirs[i] = d
        /\ dirs[orient0[1] + 1] = <<-1, 0, 0>>
        /\ dirs[orient0[2] + 1] = <<0, -1, 0>>
        /\ dirs[orient0[3] + 1] = <<0, 0, -1>>
        /\ dirs[opposite(orient0[1]) + 1] = <<1, 0, 0>>
        /\ dirs[opposite(orient0[2]) + 1] = <<0, 1, 0>>
        /\ dirs[opposite(orient0[3]) + 1] = <<0, 0, 1>>
        /\ orient0 = <<0, 1, 2>> =>
              dirs = << <<-1, 0, 0>>, <<0, -1, 0>>, <<0, 0, -1>>,
                        <<1, 0, 0>>, <<0, 1, 0>>, <<0, 0, 1>> >>

C10_Witness ==
    /\ pc = "geometry"
    /\ orient0 = <<0, 1, 2>>
    /\ dirs # <<>>
    /\ dirs[4] = <<1, 0, 0>>

\* C14: f.is_adjoining(g) is true exactly when g is neither f nor the face
\* opposite to f; a face adjoins neither itself nor its opposite.
C14_AdjoiningIffNotSameNorOpposite ==
    (pc = "geometry" /\ adjoins # <<>>) =>
        /\ \A g \in Faces :
              adjoins[g + 1] = (g # axis_face /\ g # (axis_face + 3) % 6)
        /\ adjoins[axis_face + 1] = FALSE
        /\ adjoins[opposite(axis_face) + 1] = FALSE
        /\ Cardinality({g \in Faces : adjoins[g + 1]}) = 4

C14_Witness ==
    /\ pc = "geometry"
    /\ axis_face = 4
    /\ adjoins = <<TRUE, FALSE, TRUE, TRUE, FALSE, TRUE>>

----------------------------------------------------------------------------
(* Properties of the search that rest on the geometry *)

\* C13: no contract check fires during the driver run: no exception leaves
\* main, every face on the lists and in the table is an index in 0..5, every
\* orientation on ORIENTATIONS and every candidate orientation is made of
\* three pairwise adjoining faces, every active call has 0 < cube_index <= 27,
\* and at the entry of dfs(k), k < 27, face_to_prev is face 0, the previous
\* cube's face_to_next is present and its direction is a unit vector.
C13_NoContractViolation ==
    /\ \A i \in 1..Len(outcomes) : outcomes[i].result \in {"solution", "no solution"}
    /\ \A i \in 1..Len(topology) : \A j \in 1..2 :
          topology[i][j] = None \/ FaceValid(topology[i][j])
    /\ \A i \in 1..Len(ORIENTATIONS) :
          /\ WellFormed(ORIENTATIONS[i])
          /\ \A j \in 1..3 : FaceValid(ORIENTATIONS[i][j])
    /\ \A i \in 1..Len(stack) :
          /\ 0 < stack[i].cube_index /\ stack[i].cube_index <= 27
          /\ \A j \in 1..Len(stack[i].orientations) : WellFormed(stack[i].orientations[j])
    /\ (pc = "dfs_entry" /\ Top.cube_index < 27) =>
          /\ topology[Top.cube_index + 1][1] = 0
          /\ topology[Top.cube_index][2] # None
          /\ Top.cube_index <= Len(LOCATIONS)
          /\ Top.cube_index <= Len(ORIENTATIONS)
          /\ face_direction(ORIENTATIONS[Top.cube_index], topology[Top.cube_index][2])
                \in UnitVectors

\* dfs(24) has built its four candidate orientations on the source's table
C13_Witness ==
    /\ topology = FACES_TO_NEIGHBORS
    /\ pc = "dfs_loop"
    /\ Top.cube_index = 24
    /\ Len(Top.orientations) = 4
    /\ outcomes = <<>>

----------------------------------------------------------------------------
(* Properties of the two lists during the search *)

\* C15: at every entry of dfs(cube_index), cube_index in 1..27, LOCATIONS and
\* ORIENTATIONS both hold exactly cube_index entries, those of the cubes
\* 0..cube_index-1.
C15_ListsHoldCubesBelowIndex ==
    (pc = "dfs_entry" /\ Top.cube_index \in 1..27) =>
        /\ Len(LOCATIONS) = Top.cube_index
        /\ Len(ORIENTATIONS) = Top.cube_index
        /\ Len(stack) = Top.cube_index

\* dfs(14) is entered for the second time or later: cube 13 has four
\* candidate orientations and the first of them has failed
C15_Witness ==
    /\ pc = "dfs_entry"
    /\ Top.cube_index = 14
    /\ stack[13].next >= 1
    /\ Len(LOCATIONS) = 14

\* the direction from the cube of an active call back to the previous cube,
\* read off the two locations
ReverseDirection(k) == Location_sub(LOCATIONS[k], LOCATIONS[k + 1])

\* the active calls that have built their candidate orientations and whose
\* cube is on LOCATIONS
InLoop ==
    {i \in 1..Len(stack) : /\ stack[i].orientations # <<>>
                           /\ stack[i].cube_index < Len(LOCATIONS)}

\* C16: the candidate list of every call dfs(k) that has placed its cube
\* starts with the seed face0_towards(reverse_direction); when the cube's
\* face_to_next is present and not opposite to its face_to_prev the list has
\* exactly 4 pairwise distinct orientations, each the right_hand_rotate about
\* face_to_prev of the one before it, and otherwise it has exactly 1.
C16_CandidateOrientations ==
    \A i \in InLoop :
        LET k == stack[i].cube_index
            list == stack[i].orientations
            face_to_prev == topology[k + 1][1]
            face_to_next == topology[k + 1][2]
        IN  /\ list[1] = face0_towards(ReverseDirection(k))
            /\ IF face_to_next # None /\ face_to_next # opposite(face_to_prev)
               THEN /\ Len(list) = 4
                    /\ PairwiseDistinct(list)
                    /\ \A j \in 1..3 : list[j + 1] = right_hand_rotate(list[j], face_to_prev)
               ELSE Len(list) = 1

\* the active calls have lists of four candidates for each of the six
\* reverse directions, and a list of one candidate for a cube whose
\* face_to_next is opposite to its face_to_prev
C16_Witness ==
    /\ \A d \in UnitVectors :
          \E i \in InLoop : /\ ReverseDirection(stack[i].cube_index) = d
                             /\ Len(stack[i].orientations) = 4
    /\ \E i \in InLoop : /\ Len(stack[i].orientations) = 1
                         /\ topology[stack[i].cube_index + 1][2] = 3

----------------------------------------------------------------------------
(* Properties of the rotations *)

\* C17: for a well-formed orientation and an axis face on its x-axis, one
\* right_hand_rotate sends the face that was pointing -y to -z, the face that
\* was pointing -z to +y, the face that was pointing +y to +z and the face
\* that was pointing +z to -y, and leaves the two x-axis faces where they were.
C17_XAxisRotation ==
    (/\ pc = "geometry" /\ nrot = 1
     /\ axis_face \in {neg_x_face(orient0), x_face(orient0)}) =>
        /\ face_direction(orient, neg_y_face(orient0)) = Direction(0, 0, -1)
        /\ face_direction(orient, neg_z_face(orient0)) = Direction(0, 1, 0)
        /\ face_direction(orient, y_face(orient0)) = Direction(0, 0, 1)
        /\ face_direction(orient, z_face(orient0)) = Direction(0, -1, 0)
        /\ face_direction(orient, neg_x_face(orient0)) = Direction(-1, 0, 0)
        /\ face_direction(orient, x_face(orient0)) = Direction(1, 0, 0)

\* the location of the next cube of a cube at loc with orientation o whose
\* face_to_next is the face opposite to its face_to_prev, face 0
NextLocationStraight(loc, o) == Location_add(loc, face_direction(o, opposite(0)))

\* C18: right_hand_rotate about a face leaves the directions of that face and
\* of the opposite face as they were, after any number of rotations; so for a
\* cube whose face_to_next is opposite to its face_to_prev, each rotation of
\* the seed orientation about face_to_prev puts the next cube at the same
\* location as the seed does.
C18_RotationKeepsAxis ==
    /\ (pc = "geometry" /\ nrot >= 1) =>
          /\ face_direction(orient, axis_face) = face_direction(orient0, axis_face)
          /\ face_direction(orient, opposite(axis_face))
                = face_direction(orient0, opposite(axis_face))
    /\ (pc = "geometry" /\ seed # <<>>) =>
          LET o1 == right_hand_rotate(seed, 0)
              o2 == right_hand_rotate(o1, 0)
              o3 == right_hand_rotate(o2, 0)
          IN  \A o \in {o1, o2, o3} : \A loc \in {Location(1, 1, 1)} :
                  /\ o # seed
                  /\ NextLocationStraight(loc, o) = NextLocationStraight(loc, seed)

\* three rotations about the +z face of an orientation, and a seed built
\* with face 0 towards +z
C18_Witness ==
    /\ pc = "geometry"
    /\ nrot = 3
    /\ axis_face = z_face(orient0)
    /\ orient # orient0
    /\ seed = face0_towards(Direction(0, 0, 1))

----------------------------------------------------------------------------
(* Properties of the loop over the candidate orientations *)

\* the call at the top of the stack is at the head of its loop: it has placed
\* its cube and has made Top.next attempts, all of which failed
AtLoopHead == pc = "dfs_loop"

\* a recursive call has returned to a caller that is itself a dfs call
AtReturnToDfs == pc = "dfs_return" /\ Len(stack) > 1

\* C19: a call dfs(k) that placed its cube gives up only when it is past the
\* last of its candidate orientations. It starts at the first candidate; at
\* the head of its loop LOCATIONS is the list it was entered with plus its
\* own location and ORIENTATIONS is the list it was entered with, the same
\* at every attempt; an attempt pushes the next candidate in list order,
\* leaves LOCATIONS alone and calls dfs(k+1); the loop moves on by exactly
\* one candidate, and only after that call signalled failure; giving up pops
\* the location and signals failure.
C19_TriesEveryCandidateInOrder ==
    [][/\ (pc = "dfs_entry" /\ pc' = "dfs_loop") =>
             /\ Top'.next = 0
             /\ Top'.orientations # <<>>
             /\ LOCATIONS' = Append(LOCATIONS, StepFromPrevious(Top.cube_index))
       /\ AtLoopHead =>
             /\ LOCATIONS = Append(Top.entry_LOCATIONS, StepFromPrevious(Top.cube_index))
             /\ ORIENTATIONS = Top.entry_ORIENTATIONS
             /\ Top.next <= Len(Top.orientations)
             /\ IF Top.next < Len(Top.orientations)
                THEN /\ pc' = "dfs_entry"
                     /\ ORIENTATIONS' = Append(ORIENTATIONS, Top.orientations[Top.next + 1])
                     /\ LOCATIONS' = LOCATIONS
                     /\ Len(stack') = Len(stack) + 1
                     /\ SubSeq(stack', 1, Len(stack)) = stack
                     /\ Top'.cube_index = Top.cube_index + 1
                ELSE /\ pc' = "dfs_return"
                     /\ ~Truthy(ret')
                     /\ LOCATIONS' = Top.entry_LOCATIONS
                     /\ ORIENTATIONS' = Top.entry_ORIENTATIONS
                     /\ stack' = stack
       /\ AtReturnToDfs =>
             IF Truthy(ret)
             THEN /\ pc' = "dfs_return"
                  /\ Truthy(ret')
                  /\ stack' = Pop(stack)
             ELSE /\ pc' = "dfs_loop"
                  /\ Len(stack') = Len(stack) - 1
                  /\ Top'.cube_index = Top.cube_index - 1
                  /\ Top'.orientations = stack[Len(stack) - 1].orientations
                  /\ Top'.next = stack[Len(stack) - 1].next + 1
                  /\ LOCATIONS' = LOCATIONS
    ]_vars

\* a call with four candidate orientations gives up after its fourth attempt
C19_Witness ==
    /\ pc = "dfs_return"
    /\ ret = ReturnsNone
    /\ Len(Top.orientations) = 4
    /\ Top.next = 4
    /\ LOCATIONS = Top.entry_LOCATIONS

----------------------------------------------------------------------------
(* Properties of the placement *)

\* the cubes k >= 1 that have both a location and an orientation on the lists
\* (as positions in the lists, which count from 1: cube k is at k + 1)
PlacedAfterFirst ==
    {p \in 2..27 : p <= Len(LOCATIONS) /\ p <= Len(ORIENTATIONS)}

\* C20: in every state, for every cube k >= 1 with a location and an
\* orientation on the lists, face 0 of the cube points from its location to
\* the location of cube k-1, whether the orientation on the list is the seed
\* or one of its rotations.
C20_Face0PointsAtPrevious ==
    \A p \in PlacedAfterFirst :
        face_direction(ORIENTATIONS[p], 0)
            = <<LOCATIONS[p - 1][1] - LOCATIONS[p][1],
                LOCATIONS[p - 1][2] - LOCATIONS[p][2],
                LOCATIONS[p - 1][3] - LOCATIONS[p][3]>>

\* the 27 cubes are placed, some with the seed orientation and some with a
\* rotation of it
C20_Witness ==
    /\ pc = "dfs_return"
    /\ Truthy(ret)
    /\ PlacedAfterFirst = 2..27
    /\ \E p \in PlacedAfterFirst :
          ORIENTATIONS[p] = face0_towards(Location_sub(LOCATIONS[p - 1], LOCATIONS[p]))
    /\ \E p \in PlacedAfterFirst :
          ORIENTATIONS[p] # face0_towards(Location_sub(LOCATIONS[p - 1], LOCATIONS[p]))

\* C21: for every starting placement (0,y,z) of cube 0, dfs(1) computes the
\* direction (1,0,0) and the location (1,y,z) for cube 1, which is (1,0,0)
\* for the start (0,0,0); whenever cube 1 is on LOCATIONS it is at (1,y,z),
\* and whenever cube 2 is on LOCATIONS it is at (2,y,z).
C21_FirstThreeCubesAlongX ==
    /\ (pc = "dfs_entry" /\ Top.cube_index = 1) =>
          /\ LOCATIONS = <<Location(0, y, z)>>
          /\ dfs_direction(1) = Direction(1, 0, 0)
          /\ dfs_curr_location(1) = Location(1, y, z)
          /\ (y = 0 /\ z = 0) => dfs_curr_location(1) = Location(1, 0, 0)
    /\ Len(LOCATIONS) >= 1 => LOCATIONS[1] \in {StartingPlacements[i] : i \in 1..4}
    /\ Len(LOCATIONS) >= 2 =>
          LOCATIONS[2] = Location(1, LOCATIONS[1][2], LOCATIONS[1][3])
    /\ Len(LOCATIONS) >= 3 =>
          LOCATIONS[3] = Location(2, LOCATIONS[1][2], LOCATIONS[1][3])

\* the fourth starting placement, (0,1,1), with cubes 1 and 2 placed after it
C21_Witness ==
    /\ starts = StartingPlacements
    /\ Len(LOCATIONS) >= 3
    /\ LOCATIONS[1] = Location(0, 1, 1)
    /\ LOCATIONS[3] = Location(2, 1, 1)

----------------------------------------------------------------------------
(* The outcome of the run on the source's table *)

\* dfs(27) is entered with the 27 cubes on both lists, at 27 different
\* locations of the grid
AllCubesPlaced ==
    /\ pc = "dfs_entry"
    /\ Top.cube_index = 27
    /\ Len(LOCATIONS) = 27
    /\ Len(ORIENTATIONS) = 27
    /\ \A i \in 1..27 : InGrid(LOCATIONS[i])
    /\ PairwiseDistinct(LOCATIONS)

\* C22: on the source's table the run of the driver ends in success: it
\* reaches the entry of dfs(27) with all 27 cubes placed in the grid, main
\* then returns with the solution, and main never ends with the starting
\* placements exhausted.
C22_RunEndsInSuccess ==
    /\ <>AllCubesPlaced
    /\ <>(Finished /\ LastOutcome.result = "solution")
    /\ [](Finished => LastOutcome.result = "solution")

\* main has returned on its first starting placement with the 27 cubes on
\* the lists
C22_Witness ==
    /\ Finished
    /\ LastOutcome.result = "solution"
    /\ starts = <<Location(0, 0, 0)>>
    /\ Len(LOCATIONS) = 27
    /\ Len(ORIENTATIONS) = 27
    /\ PairwiseDistinct(LOCATIONS)

====
